---- MODULE Spec2Model ----
(***************************************************************************)
(* Verification model of the company-finder enrichment pipeline            *)
(* (src/app/api/companies/route.ts): the places lookup, the email filter,   *)
(* the field mappers, the website scraper with its retry loop and content   *)
(* extraction strategies, and the POST handler that fans the scrapes out     *)
(* and joins them.                                                          *)
(*                                                                         *)
(* Strings are sequences of one-character strings, so trim, length,         *)
(* startsWith, includes, substring and concatenation are computed.          *)
(* JavaScript values are tagged records: undefined, null, string, number,   *)
(* object.                                                                  *)
(***************************************************************************)
EXTENDS Integers, Sequences, FiniteSets, TLC

VARIABLES
    call,      \* last application of a pure function: [fn, arg, ret]
    post,      \* the POST handler: [pc, body, query, companies]
    items,     \* one entry per company of the fan-out (map callback + its scrape)
    response,  \* the HTTP response of the POST, or NoResponse
    ui         \* the page: the search form, the page state, the requests in flight

vars == <<call, post, items, response, ui>>

----------------------------------------------------------------------------
(* JavaScript values *)

Undefined == [t |-> "undefined"]

Null == [t |-> "null"]

Str(s) == [t |-> "string", s |-> s]

Num(n) == [t |-> "number", n |-> n]

Obj(f) == [t |-> "object", f |-> f]

Arr(a) == [t |-> "array", a |-> a]

\* ToBoolean
Truthy(v) ==
    CASE v.t = "string" -> Len(v.s) > 0
      [] v.t = "number" -> v.n # 0
      [] v.t = "object" -> TRUE
      [] v.t = "array" -> TRUE
      [] OTHER -> FALSE

\* a || b
JsOr(a, b) == IF Truthy(a) THEN a ELSE b

\* o?.k  (undefined when o is undefined or null, or when o has no property k)
OptGet(o, k) ==
    IF o.t = "object" /\ k \in DOMAIN o.f THEN o.f[k] ELSE Undefined

----------------------------------------------------------------------------
(* String primitives *)

Whitespace == {" ", "\t", "\n"}

Rep(c, n) == [i \in 1..n |-> c]

RECURSIVE TrimStart(_)
TrimStart(s) ==
    IF Len(s) > 0 /\ Head(s) \in Whitespace THEN TrimStart(Tail(s)) ELSE s

RECURSIVE TrimEnd(_)
TrimEnd(s) ==
    IF Len(s) > 0 /\ s[Len(s)] \in Whitespace
    THEN TrimEnd(SubSeq(s, 1, Len(s) - 1))
    ELSE s

\* String.prototype.trim
Trim(s) == TrimEnd(TrimStart(s))

\* String.prototype.startsWith
StartsWith(s, pre) == Len(s) >= Len(pre) /\ SubSeq(s, 1, Len(pre)) = pre

\* String.prototype.includes
Includes(s, sub) ==
    \E i \in 0..(Len(s) - Len(sub)) : SubSeq(s, i + 1, i + Len(sub)) = sub

\* String.prototype.substring(0, n)
Substring0(s, n) == SubSeq(s, 1, IF Len(s) < n THEN Len(s) ELSE n)

----------------------------------------------------------------------------
(* Raw places of the provider.  properties.contact and                     *)
(* properties.datasource.raw are objects or absent; an absent property      *)
(* reads as undefined.                                                      *)

Contact(email, website) == Obj([email |-> email, website |-> website])

Raw(contact, flatEmail, flatWebsite, website) ==
    Obj(("contact" :> contact) @@ ("contact:email" :> flatEmail)
        @@ ("contact:website" :> flatWebsite) @@ ("website" :> website))

Place(name, contact, raw) ==
    [properties |->
        Obj([name |-> Str(name), formatted |-> Str(name \o <<" ">> \o name),
             lat |-> Num(52),
             lon |-> Num(13), contact |-> contact,
             datasource |-> IF raw = Undefined THEN Undefined
                            ELSE Obj([raw |-> raw])])]

ContactOf(company) == OptGet(company.properties, "contact")

RawOf(company) == OptGet(OptGet(company.properties, "datasource"), "raw")

\* the three email locations, in the order of the source
EmailAt(company, k) ==
    CASE k = 1 -> OptGet(ContactOf(company), "email")
      [] k = 2 -> OptGet(OptGet(RawOf(company), "contact"), "email")
      [] k = 3 -> OptGet(RawOf(company), "contact:email")

\* the four website locations, in the order of the source
WebsiteAt(company, k) ==
    CASE k = 1 -> OptGet(ContactOf(company), "website")
      [] k = 2 -> OptGet(OptGet(RawOf(company), "contact"), "website")
      [] k = 3 -> OptGet(RawOf(company), "contact:website")
      [] k = 4 -> OptGet(RawOf(company), "website")

\* faulty variant: the filter callback without the flattened 'contact:email' key
HasEmailFieldNoFlatKey(company) ==
    Truthy(JsOr(EmailAt(company, 1), EmailAt(company, 2)))

\* the callback of companies.filter
HasEmailField(company) ==
    Truthy(JsOr(EmailAt(company, 1), JsOr(EmailAt(company, 2), EmailAt(company, 3))))

\* faulty variant: no filtering
filterKeepsAll(companies) == companies

filterCompaniesWithEmails(companies) == SelectSeq(companies, HasEmailField)

\* faulty variant: the mapper without the flattened 'contact:email' key
extractEmailNoFlatKey(company) ==
    JsOr(EmailAt(company, 1), JsOr(EmailAt(company, 2), Null))

extractEmail(company) ==
    JsOr(EmailAt(company, 1),
         JsOr(EmailAt(company, 2), JsOr(EmailAt(company, 3), Null)))

\* faulty variant: the two raw-datasource flattened locations tried in the other order
extractWebsitePlainFirst(company) ==
    JsOr(WebsiteAt(company, 1),
         JsOr(WebsiteAt(company, 2),
              JsOr(WebsiteAt(company, 4), JsOr(WebsiteAt(company, 3), Null))))

extractWebsite(company) ==
    JsOr(WebsiteAt(company, 1),
         JsOr(WebsiteAt(company, 2),
              JsOr(WebsiteAt(company, 3), JsOr(WebsiteAt(company, 4), Null))))

----------------------------------------------------------------------------
(* Input universes of the pure functions *)

\* longest provider list and longest element list of a document
MaxPlaces == 3

MaxElems == 2

E1 == <<"a", "@", "x">>

E2 == <<"b", "@", "x">>

E3 == <<"c", "@", "x">>

W1 == <<"h", "t", "t", "p", "s", ":", "/", "/", "a", ".", "d", "e">>

W2 == <<"b", ".", "d", "e">>

W3 == <<"c", ".", "d", "e">>

W4 == <<"d", ".", "d", "e">>

\* a place with the given values at the three email and four website locations;
\* an object all of whose values are undefined is left out of the record
MkPlace(name, e1, e2, e3, w1, w2, w3, w4) ==
    LET contact == IF e1 = Undefined /\ w1 = Undefined THEN Undefined
                   ELSE Contact(e1, w1)
        rawContact == IF e2 = Undefined /\ w2 = Undefined THEN Undefined
                      ELSE Contact(e2, w2)
        raw == IF rawContact = Undefined /\ e3 = Undefined /\ w3 = Undefined
                  /\ w4 = Undefined
               THEN Undefined
               ELSE Raw(rawContact, e3, w3, w4)
    IN  Place(name, contact, raw)

FieldValues(s) == {Undefined, Str(<<>>), Str(s)}

EmailPlaces ==
    {MkPlace(<<"E">>, e1, e2, e3, Undefined, Undefined, Undefined, Undefined) :
        e1 \in FieldValues(E1), e2 \in FieldValues(E2), e3 \in FieldValues(E3)}

WebsitePlaces ==
    {MkPlace(<<"W">>, Str(E1), Undefined, Undefined, w1, w2, w3, w4) :
        w1 \in FieldValues(W1), w2 \in FieldValues(W2),
        w3 \in FieldValues(W3), w4 \in FieldValues(W4)}

FilterPlaces ==
    {MkPlace(<<"F">>, e1, e2, e3, Undefined, Undefined, Undefined, Undefined) :
        e1 \in {Undefined, Str(E1)}, e2 \in {Undefined, Str(E2)},
        e3 \in {Undefined, Str(E3)}}
    \cup {MkPlace(<<"F">>, Str(<<>>), Undefined, e3, Undefined, Undefined,
                  Undefined, Undefined) : e3 \in {Undefined, Str(E3)}}

SeqsUpTo(S, n) == UNION {[1..k -> S] : k \in 0..n}

NoCall == [fn |-> "none", arg |-> Undefined, ret |-> Undefined]

----------------------------------------------------------------------------
(* Applications of the pure functions *)

CallFilter ==
    /\ call = NoCall
    /\ \E companies \in SeqsUpTo(FilterPlaces, MaxPlaces) :
          call' = [fn |-> "filterCompaniesWithEmails", arg |-> companies,
                   ret |-> filterCompaniesWithEmails(companies)]
    /\ UNCHANGED <<post, items, response, ui>>

CallExtractEmail ==
    /\ call = NoCall
    /\ \E company \in EmailPlaces :
          call' = [fn |-> "extractEmail", arg |-> company,
                   ret |-> extractEmail(company)]
    /\ UNCHANGED <<post, items, response, ui>>

CallExtractWebsite ==
    /\ call = NoCall
    /\ \E company \in WebsitePlaces :
          call' = [fn |-> "extractWebsite", arg |-> company,
                   ret |-> extractWebsite(company)]
    /\ UNCHANGED <<post, items, response, ui>>

----------------------------------------------------------------------------
(* Content extraction (the strategies applied to a parsed document).        *)
(* A document is what the selectors of the source see: the texts of its <p> *)
(* elements, the content attribute of its meta description, the texts of    *)
(* its h1/h2/h3 elements and its <div> elements, all in document order; a   *)
(* div carries whether it matches the content class/id selector.            *)

ParagraphMin == 30

MetaMin == 20

HeadingMin == 10

ContentDivMin == 40

AnyDivMin == 40

SnippetCap == 300

NoContentSentinel ==
    <<"N", "o", " ", "m", "e", "a", "n", "i", "n", "g", "f", "u", "l", " ", "c", "o", "n", "t", "e", "n", "t", " ", "f", "o", "u", "n", "d">>

\* faulty variant: the length comparison made non-strict
FilterAtLeast(texts, min) == SelectSeq(texts, LAMBDA t : Len(Trim(t)) >= min)

\* $(sel).filter(function() { return $(this).text().trim().length > min })
FilterLonger(texts, min) == SelectSeq(texts, LAMBDA t : Len(Trim(t)) > min)

\* .first().text(): the empty string on an empty selection
FirstText(texts) == IF Len(texts) > 0 THEN Head(texts) ELSE <<>>

DivTexts(divs) == [i \in 1..Len(divs) |-> divs[i].text]

ContentDivs(doc) == SelectSeq(doc.div, LAMBDA d : d.cls)

ExtractContent(doc) ==
    LET paragraphs == FilterLonger(doc.p, ParagraphMin)
        metaDescription == doc.meta
        headings == FilterLonger(doc.h, HeadingMin)
        contentDivs == FilterLonger(DivTexts(ContentDivs(doc)), ContentDivMin)
        anyDiv == Str(Trim(FirstText(FilterLonger(DivTexts(doc.div), AnyDivMin))))
    IN  IF Len(paragraphs) > 0 THEN Str(Trim(FirstText(paragraphs)))
        ELSE IF Truthy(metaDescription) /\ Len(metaDescription.s) > MetaMin
             THEN Str(Trim(metaDescription.s))
        ELSE IF Len(headings) > 0 THEN Str(Trim(FirstText(headings)))
        ELSE IF Len(contentDivs) > 0
             THEN Str(Substring0(Trim(FirstText(contentDivs)), SnippetCap))
        ELSE JsOr(anyDiv, Str(NoContentSentinel))

Pad(s) == <<" ">> \o s \o <<"\n">>

ParaTexts == {Pad(Rep("p", ParagraphMin)), Pad(Rep("q", ParagraphMin + 1))}

MetaValues ==
    {Undefined, Str(Rep("m", MetaMin)), Str(Pad(Rep("n", MetaMin + 1))),
     Str(Pad(Rep("k", MetaMin - 1))), Str(Rep(" ", MetaMin + 1))}

HeadingTexts == {Pad(Rep("h", HeadingMin)), Pad(Rep("g", HeadingMin + 1))}

DivElems ==
    {[cls |-> TRUE, text |-> Pad(Rep("c", ContentDivMin))],
     [cls |-> TRUE, text |-> Pad(Rep("d", SnippetCap + 1))],
     [cls |-> FALSE, text |-> Pad(Rep("e", AnyDivMin + 1))],
     [cls |-> FALSE, text |-> Pad(Rep("f", SnippetCap + 1))]}

Docs ==
    [p : SeqsUpTo(ParaTexts, MaxElems), meta : MetaValues,
     h : SeqsUpTo(HeadingTexts, MaxElems), div : SeqsUpTo(DivElems, MaxElems)]

CallExtractContent ==
    /\ call = NoCall
    /\ \E doc \in Docs :
          call' = [fn |-> "extractContent", arg |-> doc,
                   ret |-> ExtractContent(doc)]
    /\ UNCHANGED <<post, items, response, ui>>

----------------------------------------------------------------------------
(* The handler and its fan-out, at rest *)

NoResponse == [status |-> 0, body |-> Undefined]

IdlePost == [pc |-> "idle", body |-> Undefined, query |-> Undefined,
             reply |-> "none", companies |-> Undefined]

\* the page before any interaction
InitialUi ==
    [latitude |-> <<>>, longitude |-> <<>>, radius |-> <<"2", ".", "5">>,
     formLoading |-> FALSE, formError |-> Null,
     companies |-> <<>>, loading |-> FALSE, error |-> Null,
     locating |-> FALSE, searches |-> <<>>]

InitCalls ==
    /\ call = NoCall
    /\ post = IdlePost
    /\ items = <<>>
    /\ response = NoResponse
    /\ ui = InitialUi

----------------------------------------------------------------------------
(* Claims about the pure functions, checked under SpecCalls *)

MinOf(S) == CHOOSE k \in S : \A j \in S : k <= j

NonEmptyString(v) == v.t = "string" /\ Len(v.s) > 0

EmailPresent(company) == \E k \in 1..3 : NonEmptyString(EmailAt(company, k))

\* C4: filterCompaniesWithEmails retains a place iff a (non-empty) email is
\* present at one of the three locations, and its result is the subsequence of
\* the input made of exactly those places, in the input's order, unaltered.
C4_FilterRetainsExactlyEmailPlaces ==
    call.fn = "filterCompaniesWithEmails" =>
        LET inp == call.arg
            out == call.ret
            K == {i \in 1..Len(inp) : EmailPresent(inp[i])}
        IN  /\ Len(out) = Cardinality(K)
            /\ \E f \in [1..Len(out) -> K] :
                  /\ \A a, b \in 1..Len(out) : a < b => f[a] < f[b]
                  /\ \A a \in 1..Len(out) : out[a] = inp[f[a]]

\* a list whose first place has no email (an empty string at contact.email),
\* whose other two have one (one of them only under the flattened key), filtered
C4_Witness ==
    /\ call.fn = "filterCompaniesWithEmails"
    /\ Len(call.arg) = 3
    /\ EmailAt(call.arg[1], 1) = Str(<<>>) /\ ~EmailPresent(call.arg[1])
    /\ ~NonEmptyString(EmailAt(call.arg[2], 1))
    /\ ~NonEmptyString(EmailAt(call.arg[2], 2))
    /\ NonEmptyString(EmailAt(call.arg[2], 3))
    /\ call.ret = <<call.arg[2], call.arg[3]>>

\* C6: extractWebsite returns the value of the highest-priority location that
\* holds a non-empty website, whatever the lower-priority locations hold, and
\* null exactly when all four locations are absent or empty.
C6_WebsiteHighestPriority ==
    call.fn = "extractWebsite" =>
        LET P == {k \in 1..4 : NonEmptyString(WebsiteAt(call.arg, k))}
        IN  /\ P # {} => call.ret = WebsiteAt(call.arg, MinOf(P))
            /\ P = {} <=> call.ret = Null

\* contact.website is empty, the three raw-datasource locations all hold a
\* website, and the structured raw contact's one is returned
C6_Witness ==
    /\ call.fn = "extractWebsite"
    /\ WebsiteAt(call.arg, 1) = Str(<<>>)
    /\ \A k \in 2..4 : NonEmptyString(WebsiteAt(call.arg, k))
    /\ call.ret = Str(W2)

ClaimedSentinel ==
    <<"N", "o", " ", "m", "e", "a", "n", "i", "n", "g", "f", "u", "l", " ", "c", "o", "n", "t", "e", "n", "t", " ", "f", "o", "u", "n", "d">>

\* the first text of a list whose trimmed length exceeds n
FirstOver(texts, n) ==
    texts[MinOf({i \in 1..Len(texts) : Len(Trim(texts[i])) > n})]

AnyOver(texts, n) == \E i \in 1..Len(texts) : Len(Trim(texts[i])) > n

ClassedDivTexts(doc) ==
    LET I == {i \in 1..Len(doc.div) : doc.div[i].cls}
        RECURSIVE Pick(_)
        Pick(i) == IF i > Len(doc.div) THEN <<>>
                   ELSE (IF i \in I THEN <<doc.div[i].text>> ELSE <<>>) \o Pick(i + 1)
    IN  Pick(1)

StrategySatisfied(k, doc) ==
    CASE k = 1 -> AnyOver(doc.p, 30)
      [] k = 2 -> doc.meta.t = "string" /\ Len(doc.meta.s) > 20
      [] k = 3 -> AnyOver(doc.h, 10)
      [] k = 4 -> AnyOver(ClassedDivTexts(doc), 40)
      [] k = 5 -> AnyOver(DivTexts(doc.div), 40)

StrategyResult(k, doc) ==
    CASE k = 1 -> Trim(FirstOver(doc.p, 30))
      [] k = 2 -> Trim(doc.meta.s)
      [] k = 3 -> Trim(FirstOver(doc.h, 10))
      [] k = 4 -> LET t == Trim(FirstOver(ClassedDivTexts(doc), 40))
                  IN  IF Len(t) <= 300 THEN t ELSE [i \in 1..300 |-> t[i]]
      [] k = 5 -> Trim(FirstOver(DivTexts(doc.div), 40))

C8_ExtractedContentNonEmpty ==
    call.fn = "extractContent" =>
        /\ NonEmptyString(call.ret)
        /\ (\A k \in 1..5 : ~StrategySatisfied(k, call.arg))
              => call.ret = Str(ClaimedSentinel)

----------------------------------------------------------------------------
(* scrapeWebsite: string constants of the source, and the values axios.get  *)
(* rejects with (AxiosError and Node error codes and messages)              *)

FailedPrefix ==
    <<"F", "a", "i", "l", "e", "d", " ", "t", "o", " ", "s", "c", "r", "a", "p", "e", ":", " ">>

HttpWord ==
    <<"h", "t", "t", "p">>

HttpsScheme ==
    <<"h", "t", "t", "p", "s", ":", "/", "/">>

TimeoutWord ==
    <<"t", "i", "m", "e", "o", "u", "t">>

UndefinedText ==
    <<"u", "n", "d", "e", "f", "i", "n", "e", "d">>

CodeECONNABORTED ==
    <<"E", "C", "O", "N", "N", "A", "B", "O", "R", "T", "E", "D">>

CodeECONNRESET ==
    <<"E", "C", "O", "N", "N", "R", "E", "S", "E", "T">>

CodeECONNREFUSED ==
    <<"E", "C", "O", "N", "N", "R", "E", "F", "U", "S", "E", "D">>

CodeENOTFOUND ==
    <<"E", "N", "O", "T", "F", "O", "U", "N", "D">>

CodeERR_BAD_REQUEST ==
    <<"E", "R", "R", "_", "B", "A", "D", "_", "R", "E", "Q", "U", "E", "S", "T">>

CodeCERT_HAS_EXPIRED ==
    <<"C", "E", "R", "T", "_", "H", "A", "S", "_", "E", "X", "P", "I", "R", "E", "D">>

CodeHPE_INVALID_CONSTANT ==
    <<"H", "P", "E", "_", "I", "N", "V", "A", "L", "I", "D", "_", "C", "O", "N", "S", "T", "A", "N", "T">>

MsgTimeout ==
    <<"t", "i", "m", "e", "o", "u", "t", " ", "o", "f", " ", "1", "5", "0", "0", "0", "m", "s", " ", "e", "x", "c", "e", "e", "d", "e", "d">>

MsgConnReset ==
    <<"r", "e", "a", "d", " ", "E", "C", "O", "N", "N", "R", "E", "S", "E", "T">>

MsgConnRefused ==
    <<"c", "o", "n", "n", "e", "c", "t", " ", "E", "C", "O", "N", "N", "R", "E", "F", "U", "S", "E", "D", " ", "1", "0", ".", "0", ".", "0", ".", "1", ":", "4", "4", "3">>

MsgDns ==
    <<"g", "e", "t", "a", "d", "d", "r", "i", "n", "f", "o", " ", "E", "N", "O", "T", "F", "O", "U", "N", "D", " ", "a", ".", "d", "e">>

MsgHttp404 ==
    <<"R", "e", "q", "u", "e", "s", "t", " ", "f", "a", "i", "l", "e", "d", " ", "w", "i", "t", "h", " ", "s", "t", "a", "t", "u", "s", " ", "c", "o", "d", "e", " ", "4", "0", "4">>

MsgTls ==
    <<"c", "e", "r", "t", "i", "f", "i", "c", "a", "t", "e", " ", "h", "a", "s", " ", "e", "x", "p", "i", "r", "e", "d">>

MsgParse ==
    <<"P", "a", "r", "s", "e", " ", "E", "r", "r", "o", "r", ":", " ", "E", "x", "p", "e", "c", "t", "e", "d", " ", "H", "T", "T", "P", "/">>

MsgLatLonRequired ==
    <<"L", "a", "t", "i", "t", "u", "d", "e", " ", "a", "n", "d", " ", "l", "o", "n", "g", "i", "t", "u", "d", "e", " ", "a", "r", "e", " ", "r", "e", "q", "u", "i", "r", "e", "d">>

MsgFailedToProcess ==
    <<"F", "a", "i", "l", "e", "d", " ", "t", "o", " ", "p", "r", "o", "c", "e", "s", "s", " ", "r", "e", "q", "u", "e", "s", "t">>


maxAttempts == 3

RetryDelayMs == 1000

Err(code, message) == Obj([code |-> code, message |-> message])

ErrTimeout == Err(Str(CodeECONNABORTED), Str(MsgTimeout))

ErrConnReset == Err(Str(CodeECONNRESET), Str(MsgConnReset))

ErrConnRefused == Err(Str(CodeECONNREFUSED), Str(MsgConnRefused))

ErrDns == Err(Str(CodeENOTFOUND), Str(MsgDns))

ErrHttp404 == Err(Str(CodeERR_BAD_REQUEST), Str(MsgHttp404))

ErrTls == Err(Str(CodeCERT_HAS_EXPIRED), Str(MsgTls))

ErrParse == Err(Str(CodeHPE_INVALID_CONSTANT), Str(MsgParse))

\* an error object that carries neither code nor message
ErrBare == Err(Undefined, Undefined)

\* String(v) of a template literal
ToText(v) == IF v.t = "string" THEN v.s ELSE UndefinedText

\* the state of one scrapeWebsite call between its awaits
NoScrape ==
    [pc |-> "skipped", url |-> Null, formattedUrl |-> <<>>, attempt |-> 0,
     fetched |-> <<>>, waits |-> <<>>, thrown |-> <<>>, lastError |-> Null,
     data |-> Undefined, result |-> Null]

\* the url actually requested
FormatUrl(url) == IF StartsWith(url, HttpWord) THEN url ELSE HttpsScheme \o url

\* scrapeWebsite(url), up to its first await
ScrapeCall(url) ==
    IF ~Truthy(url)
    THEN [NoScrape EXCEPT !.pc = "returned", !.url = url]
    ELSE [NoScrape EXCEPT !.pc = "fetching", !.url = url,
                          !.formattedUrl = FormatUrl(url.s), !.attempt = 1,
                          !.fetched = <<FormatUrl(url.s)>>]

\* faulty variant: every failure is retried
IsRetryableAlways(error) == TRUE

\* the condition of the catch block under which the attempt is repeated
\* (error.code and error.message throw a TypeError when error is undefined/null)
IsRetryable(error) ==
    \/ OptGet(error, "code") = Str(CodeECONNABORTED)
    \/ /\ OptGet(error, "message").t = "string"
       /\ Includes(OptGet(error, "message").s, TimeoutWord)

\* axios.get resolved with a document: the extraction strategies decide
ScrapeOnResponse(s, doc) ==
    [s EXCEPT !.pc = "returned", !.data = doc, !.result = ExtractContent(doc)]

\* faulty variant: the attempt bound of the retry is off by one
ScrapeOnThrowExtraAttempt(s, error) ==
    LET t == [s EXCEPT !.lastError = error, !.thrown = Append(@, error)]
    IN  IF error.t \in {"undefined", "null"}
        THEN [t EXCEPT !.pc = "rejected", !.result = Undefined]
        ELSE IF IsRetryable(error) /\ s.attempt <= maxAttempts
        THEN [t EXCEPT !.pc = "waiting", !.waits = Append(@, RetryDelayMs)]
        ELSE [t EXCEPT !.pc = "returned",
                       !.result = Str(FailedPrefix \o ToText(OptGet(error, "message")))]

\* axios.get (or cheerio.load) threw: the catch block
ScrapeOnThrow(s, error) ==
    LET t == [s EXCEPT !.lastError = error, !.thrown = Append(@, error)]
    IN  IF error.t \in {"undefined", "null"}
        THEN [t EXCEPT !.pc = "rejected", !.result = Undefined]
        ELSE IF IsRetryable(error) /\ s.attempt < maxAttempts
        THEN [t EXCEPT !.pc = "waiting", !.waits = Append(@, RetryDelayMs)]
        ELSE [t EXCEPT !.pc = "returned",
                       !.result = Str(FailedPrefix \o ToText(OptGet(error, "message")))]

\* the retry timer fired: the loop continues with the next attempt
ScrapeOnTimer(s) ==
    [s EXCEPT !.pc = "fetching", !.attempt = @ + 1,
              !.fetched = Append(@, s.formattedUrl)]

Ok(doc) == [ok |-> TRUE, doc |-> doc, error |-> Undefined]

Fail(error) == [ok |-> FALSE, doc |-> Undefined, error |-> error]

ScrapeOnSettle(s, o) ==
    IF o.ok THEN ScrapeOnResponse(s, o.doc) ELSE ScrapeOnThrow(s, o.error)

ScrapeSettled(s) == s.pc \in {"returned", "rejected", "skipped"}

----------------------------------------------------------------------------
(* The POST handler.  Numbers are held in tenths (Num(25) is 2.5).          *)

DefaultRadius == 25

ProviderLimit == 500

BadJson == [t |-> "malformed"]

Body(latitude, longitude, radius) ==
    Obj([latitude |-> latitude, longitude |-> longitude, radius |-> radius])

ErrorResponse(status, message) ==
    [status |-> status, body |-> Obj([error |-> Str(message)])]

\* the params of the axios.get of fetchNearbyCompanies
ProviderQuery(lat, lon, radiusKm) ==
    [categories |-> "commercial", lon |-> lon, lat |-> lat,
     radiusMeters |-> Num(radiusKm.n * 1000), limit |-> ProviderLimit]

\* the callback of companiesWithEmails.map, up to its first await
StartItem(company) ==
    LET website == extractWebsite(company)
        email == extractEmail(company)
    IN  [company |-> company, website |-> website, email |-> email,
         scrape |-> IF Truthy(website) THEN ScrapeCall(website) ELSE NoScrape]

\* the record the map callback returns once its scrape has returned
CompanyRecord(item) ==
    [name |-> OptGet(item.company.properties, "name"),
     address |-> OptGet(item.company.properties, "formatted"),
     location |-> [lat |-> OptGet(item.company.properties, "lat"),
                   lon |-> OptGet(item.company.properties, "lon")],
     website |-> item.website,
     email |-> item.email,
     scrapedContent |-> item.scrape.result]

\* faulty variant: the records of the callbacks that returned are sent although
\* one callback rejected
JoinOutcomePartial(its) ==
    LET returned == SelectSeq(its, LAMBDA it : it.scrape.pc \in {"returned", "skipped"})
        records == [i \in 1..Len(returned) |->
                       [name |-> OptGet(returned[i].company.properties, "name"),
                        website |-> returned[i].website,
                        email |-> returned[i].email,
                        scrapedContent |-> returned[i].scrape.result]]
    IN  IF \/ \E i \in 1..Len(its) : its[i].scrape.pc = "rejected"
           \/ \A i \in 1..Len(its) : its[i].scrape.pc \in {"returned", "skipped"}
        THEN [status |-> 200, body |-> Obj([companies |-> records])]
        ELSE [status |-> 0, body |-> Undefined]

\* faulty variant: the response is sent as soon as one callback has returned
JoinOutcomeFirstReturned(its) ==
    IF \E i \in 1..Len(its) : its[i].scrape.pc = "rejected"
    THEN [status |-> 500, body |-> Obj([error |-> Str(MsgFailedToProcess)])]
    ELSE IF Len(its) = 0 \/ \E i \in 1..Len(its) : its[i].scrape.pc \in {"returned", "skipped"}
    THEN [status |-> 200,
          body |-> Obj([companies |-> [i \in 1..Len(its) |->
                           [name |-> OptGet(its[i].company.properties, "name"),
                            website |-> its[i].website,
                            email |-> its[i].email,
                            scrapedContent |-> its[i].scrape.result]]])]
    ELSE [status |-> 0, body |-> Undefined]

\* Promise.all over the callbacks: rejected as soon as one of them rejects,
\* fulfilled once all of them have returned, pending otherwise
JoinOutcome(its) ==
    IF \E i \in 1..Len(its) : its[i].scrape.pc = "rejected"
    THEN ErrorResponse(500, MsgFailedToProcess)
    ELSE IF \A i \in 1..Len(its) : ScrapeSettled(its[i].scrape)
    THEN [status |-> 200,
          body |-> Obj([companies |-> [i \in 1..Len(its) |-> CompanyRecord(its[i])]])]
    ELSE NoResponse

\* the continuation of POST after the await of Promise.all, run in the same
\* turn of the event loop as the settlement that decides the join
Join(its) ==
    IF post.pc = "awaitingScrapes" /\ JoinOutcome(its) # NoResponse
    THEN /\ response' = JoinOutcome(its)
         /\ post' = [post EXCEPT !.pc = "responded"]
    ELSE UNCHANGED <<post, response>>

\* POST, from the request to the await of fetchNearbyCompanies
ReceivePost(body) ==
    /\ post.pc = "idle"
    /\ items = <<>>
    /\ IF body = BadJson
       THEN /\ post' = [post EXCEPT !.pc = "responded", !.body = body]
            /\ response' = ErrorResponse(500, MsgFailedToProcess)
       ELSE LET latitude == OptGet(body, "latitude")
                longitude == OptGet(body, "longitude")
                radius == IF OptGet(body, "radius") = Undefined
                          THEN Num(DefaultRadius) ELSE OptGet(body, "radius")
            IN  IF ~Truthy(latitude) \/ ~Truthy(longitude)
                THEN /\ post' = [post EXCEPT !.pc = "responded", !.body = body]
                     /\ response' = ErrorResponse(400, MsgLatLonRequired)
                ELSE IF radius.t \in {"null", "undefined"}
                THEN \* radius.toString() throws a TypeError
                     /\ post' = [post EXCEPT !.pc = "responded", !.body = body]
                     /\ response' = ErrorResponse(500, MsgFailedToProcess)
                ELSE /\ post' = [post EXCEPT
                                    !.pc = "awaitingProvider", !.body = body,
                                    !.query = ProviderQuery(latitude, longitude, radius)]
                     /\ UNCHANGED response
    /\ UNCHANGED <<call, items, ui>>

\* what fetchNearbyCompanies returns for a reply of the provider
FetchResult(reply) ==
    CASE reply.kind = "features" -> Arr(reply.features)
      [] reply.kind = "nofeatures" -> Undefined
      [] reply.kind = "error" -> Arr(<<>>)

\* the provider's reply arrives: fetchNearbyCompanies returns, the filter runs
\* and the map starts every callback
ProviderSettles(reply) ==
    /\ post.pc = "awaitingProvider"
    /\ LET companies == FetchResult(reply)
       IN  IF companies.t # "array"
           THEN /\ post' = [post EXCEPT !.pc = "responded", !.reply = reply.kind,
                                         !.companies = companies]
                /\ response' = ErrorResponse(500, MsgFailedToProcess)
                /\ UNCHANGED items
           ELSE LET companiesWithEmails == filterCompaniesWithEmails(companies.a)
                    started == [i \in 1..Len(companiesWithEmails) |->
                                   StartItem(companiesWithEmails[i])]
                IN  /\ items' = started
                    /\ IF JoinOutcome(started) # NoResponse
                       THEN /\ response' = JoinOutcome(started)
                            /\ post' = [post EXCEPT !.pc = "responded",
                                                    !.reply = reply.kind,
                                                    !.companies = companies]
                       ELSE /\ post' = [post EXCEPT !.pc = "awaitingScrapes",
                                                    !.reply = reply.kind,
                                                    !.companies = companies]
                            /\ UNCHANGED response
    /\ UNCHANGED <<call, ui>>

\* the site of item i answers its pending request, or the request fails
SiteSettles(i, o) ==
    /\ i \in 1..Len(items)
    /\ items[i].scrape.pc = "fetching"
    /\ items' = [items EXCEPT ![i].scrape = ScrapeOnSettle(@, o)]
    /\ Join(items')
    /\ UNCHANGED <<call, ui>>

\* the 1 s retry timer of item i fires
TimerFires(i) ==
    /\ i \in 1..Len(items)
    /\ items[i].scrape.pc = "waiting"
    /\ items' = [items EXCEPT ![i].scrape = ScrapeOnTimer(@)]
    /\ UNCHANGED <<call, post, response, ui>>

\* a direct call of scrapeWebsite
CallScrape(url) ==
    /\ post.pc = "idle"
    /\ items = <<>>
    /\ items' = <<[company |-> Undefined, website |-> url, email |-> Null,
                   scrape |-> ScrapeCall(url)]>>
    /\ UNCHANGED <<call, post, response, ui>>

----------------------------------------------------------------------------
(* Environments *)

\* the 40-character paragraph of the end-to-end scenario
DocParagraph ==
    [p |-> <<Rep("x", ContentDivMin)>>, meta |-> Undefined, h |-> <<>>, div |-> <<>>]

DocEmpty == [p |-> <<>>, meta |-> Undefined, h |-> <<>>, div |-> <<>>]

DocBlankMeta ==
    [p |-> <<>>, meta |-> Str(Rep(" ", MetaMin + 1)), h |-> <<>>, div |-> <<>>]

ScrapeDocs == {DocParagraph, DocEmpty, DocBlankMeta}

ThrownValues ==
    {ErrTimeout, ErrConnReset, ErrConnRefused, ErrDns, ErrHttp404, ErrTls,
     ErrParse, ErrBare, Undefined}

ScrapeOutcomes == {Ok(d) : d \in ScrapeDocs} \cup {Fail(e) : e \in ThrownValues}

W5 == <<"h", "t", "t", "p", ":", "/", "/", "e", ".", "d", "e">>

\* a host without a scheme whose name begins with "http"
W6 == <<"h", "t", "t", "p", "b", "i", "n", ".", "o", "r", "g">>

ScrapeUrls == {Str(<<>>), Str(W1), Str(W2), Str(W5), Str(W6)}

\* the sites of one request: a page, a timeout, an HTTP error, a bare rejection
PipelineOutcomes ==
    {Ok(DocParagraph), Fail(ErrTimeout), Fail(ErrHttp404), Fail(Undefined)}

\* email at contact and under the flattened key, website with a scheme
PlaceA ==
    MkPlace(<<"A">>, Str(E1), Undefined, Str(E3), Str(W1), Undefined, Undefined, Str(W4))

\* email at the raw contact, no website
PlaceB ==
    MkPlace(<<"B">>, Undefined, Str(E2), Undefined, Str(<<>>), Undefined, Undefined, Undefined)

\* no email, a website
PlaceC ==
    MkPlace(<<"C">>, Str(<<>>), Undefined, Undefined, Undefined, Undefined, Str(W3), Undefined)

\* email under the flattened key only, website without a scheme
PlaceD ==
    MkPlace(<<"D">>, Undefined, Undefined, Str(E3), Undefined, Str(W2), Undefined, Undefined)

Catalogue == {PlaceA, PlaceB, PlaceC, PlaceD}

\* the features of a reply are distinct places
DistinctSeqsUpTo(S, n) ==
    {f \in SeqsUpTo(S, n) : \A i, j \in 1..Len(f) : i # j => f[i] # f[j]}

ProviderReplies ==
    {[kind |-> "features", features |-> f] :
        f \in DistinctSeqsUpTo(Catalogue, MaxPlaces)}
    \cup {[kind |-> "nofeatures", features |-> <<>>],
          [kind |-> "error", features |-> <<>>]}

Bodies ==
    {Body(lat, lon, r) : lat \in {Undefined, Num(0), Num(525)},
                         lon \in {Undefined, Num(134)},
                         r \in {Undefined, Null, Num(20), Num(0), Num(-10)}}
    \cup {BadJson}

----------------------------------------------------------------------------
(* The status shown for a record's scrapedContent (CompanyTable) *)

ErrorMarker ==
    <<"E", "R", "R", "O", "R", ":">>

CodeNOT_ATTEMPTED ==
    <<"N", "O", "T", "_", "A", "T", "T", "E", "M", "P", "T", "E", "D">>

CodeUNKNOWN ==
    <<"U", "N", "K", "N", "O", "W", "N">>

CodeEMPTY_CONTENT ==
    <<"E", "M", "P", "T", "Y", "_", "C", "O", "N", "T", "E", "N", "T">>

\* the characters of \w
WordChars ==
    {"A", "B", "C", "D", "E", "F", "G", "H", "I", "J", "K", "L", "M", "N",
     "O", "P", "Q", "R", "S", "T", "U", "V", "W", "X", "Y", "Z", "a", "b",
     "c", "d", "e", "f", "g", "h", "i", "j", "k", "l", "m", "n", "o", "p",
     "q", "r", "s", "t", "u", "v", "w", "x", "y", "z", "0", "1", "2", "3",
     "4", "5", "6", "7", "8", "9", "_"}

\* the index after the run of characters of cs that starts at i
RunEnd(s, i, cs) ==
    CHOOSE j \in i..(Len(s) + 1) :
        /\ \A k \in i..(j - 1) : s[k] \in cs
        /\ j = Len(s) + 1 \/ s[j] \notin cs

\* the word captured by /ERROR:\s*(\w+)/ when the marker is at i
ErrorWordAt(s, i) ==
    LET from == RunEnd(s, i + Len(ErrorMarker), Whitespace)
    IN  SubSeq(s, from, RunEnd(s, from, WordChars) - 1)

\* content.match(/ERROR:\s*(\w+)/): the capture of the leftmost match, or null
ErrorMatch(s) ==
    LET at == {i \in 1..(Len(s) - Len(ErrorMarker) + 1) :
                  /\ SubSeq(s, i, i + Len(ErrorMarker) - 1) = ErrorMarker
                  /\ Len(ErrorWordAt(s, i)) > 0}
    IN  IF at = {} THEN Null
        ELSE Str(ErrorWordAt(s, CHOOSE i \in at : \A k \in at : i <= k))

getScrapeStatus(content) ==
    IF content = Null
    THEN [success |-> FALSE, errorCode |-> Str(CodeNOT_ATTEMPTED)]
    ELSE IF Includes(content.s, ErrorMarker)
    THEN [success |-> FALSE,
          errorCode |-> IF ErrorMatch(content.s) # Null
                        THEN ErrorMatch(content.s) ELSE Str(CodeUNKNOWN)]
    ELSE IF Trim(content.s) = <<>>
    THEN [success |-> FALSE, errorCode |-> Str(CodeEMPTY_CONTENT)]
    ELSE [success |-> TRUE, errorCode |-> Undefined]

\* what scrapedContent can hold: null when no scrape was made, what
\* scrapeWebsite returns for a page and for a failure, and marked strings
ScrapedContents ==
    {Null}
    \cup {ScrapeOnResponse(ScrapeCall(Str(W1)), doc).result : doc \in ScrapeDocs}
    \cup {ScrapeOnThrow(ScrapeCall(Str(W1)), e).result :
             e \in {ErrConnReset, ErrHttp404, ErrBare}}
    \cup {ScrapeOnThrow([ScrapeCall(Str(W1)) EXCEPT !.attempt = maxAttempts],
                         ErrTimeout).result}
    \cup {Str(ErrorMarker \o <<" ", "E", "4", "0", "4", " ", "n", "o", "t", " ",
                             "f", "o", "u", "n", "d">>),
          Str(ErrorMarker \o <<" ", "!">>),
          Str(ErrorMarker)}

CallGetScrapeStatus ==
    /\ call = NoCall
    /\ \E content \in ScrapedContents :
          call' = [fn |-> "getScrapeStatus", arg |-> content,
                   ret |-> getScrapeStatus(content)]
    /\ UNCHANGED <<post, items, response, ui>>

----------------------------------------------------------------------------
(* The search page (Home) and its form (SearchForm) *)

MsgEnterCoordinates ==
    <<"P", "l", "e", "a", "s", "e", " ", "e", "n", "t", "e", "r", " ", "l", "a", "t", "i", "t", "u", "d", "e", " ", "a", "n", "d", " ", "l", "o", "n", "g", "i", "t", "u", "d", "e">>

MsgNoGeolocation ==
    <<"G", "e", "o", "l", "o", "c", "a", "t", "i", "o", "n", " ", "i", "s", " ", "n", "o", "t", " ", "s", "u", "p", "p", "o", "r", "t", "e", "d", " ", "b", "y", " ", "y", "o", "u", "r", " ", "b", "r", "o", "w", "s", "e", "r">>

LocationErrorPrefix ==
    <<"E", "r", "r", "o", "r", " ", "g", "e", "t", "t", "i", "n", "g", " ", "l", "o", "c", "a", "t", "i", "o", "n", ":", " ">>

SearchErrorPrefix ==
    <<"E", "r", "r", "o", "r", " ", "s", "e", "a", "r", "c", "h", "i", "n", "g", " ", "c", "o", "m", "p", "a", "n", "i", "e", "s", ":", " ">>

HttpErrorPrefix ==
    <<"H", "T", "T", "P", " ", "e", "r", "r", "o", "r", "!", " ", "s", "t", "a", "t", "u", "s", ":", " ">>

MsgUnknownError ==
    <<"U", "n", "k", "n", "o", "w", "n", " ", "e", "r", "r", "o", "r">>

MaxSearches == 2

\* the value parseFloat gives for a text that does not begin with a number
NaN == [t |-> "nan"]

DigitChars == <<"0", "1", "2", "3", "4", "5", "6", "7", "8", "9">>

RECURSIVE DigitsValue(_)
DigitsValue(ds) ==
    IF ds = <<>> THEN 0
    ELSE 10 * DigitsValue(SubSeq(ds, 1, Len(ds) - 1))
             + (CHOOSE d \in 0..9 : DigitChars[d + 1] = ds[Len(ds)])

RECURSIVE DigitsOf(_)
DigitsOf(n) ==
    IF n < 10 THEN <<DigitChars[n + 1]>>
    ELSE DigitsOf(n \div 10) \o <<DigitChars[(n % 10) + 1]>>

\* parseFloat of a decimal text: leading whitespace skipped, optional sign,
\* digits, optional fraction, the rest ignored; numbers are kept in tenths, so
\* fraction digits after the first are dropped
parseFloat(text) ==
    LET s == TrimStart(text)
        digit == {DigitChars[d] : d \in 1..10}
        signed == Len(s) > 0 /\ s[1] \in {"+", "-"}
        i == IF signed THEN 2 ELSE 1
        j == RunEnd(s, i, digit)
        dotted == j <= Len(s) /\ s[j] = "."
        k == IF dotted THEN RunEnd(s, j + 1, digit) ELSE j
        int == SubSeq(s, i, j - 1)
        frac == IF dotted THEN SubSeq(s, j + 1, k - 1) ELSE <<>>
        magnitude == 10 * DigitsValue(int)
                         + (IF frac = <<>> THEN 0 ELSE DigitsValue(<<frac[1]>>))
    IN  IF int = <<>> /\ frac = <<>> THEN NaN
        ELSE Num(IF signed /\ s[1] = "-" THEN 0 - magnitude ELSE magnitude)

\* Number.prototype.toString of a number kept in tenths
NumberToString(v) ==
    LET magnitude == IF v.n < 0 THEN 0 - v.n ELSE v.n
    IN  (IF v.n < 0 THEN <<"-">> ELSE <<>>)
            \o DigitsOf(magnitude \div 10)
            \o (IF magnitude % 10 = 0 THEN <<>>
                ELSE <<".", DigitChars[(magnitude % 10) + 1]>>)

\* JSON.stringify of a number: NaN is written as null
JsonNumber(v) == IF v = NaN THEN Null ELSE v

\* the `disabled` attribute of the Search Companies button
SearchDisabled(u) == u.formLoading \/ Len(u.latitude) = 0 \/ Len(u.longitude) = 0

\* searchCompanies(latitude, longitude, radius), up to its await of fetch
searchCompanies(u, latitude, longitude, radius) ==
    [u EXCEPT !.loading = TRUE, !.error = Null,
              !.searches = Append(@, [body |-> Body(JsonNumber(latitude),
                                                    JsonNumber(longitude),
                                                    JsonNumber(radius)),
                                      state |-> "inflight",
                                      result |-> Undefined])]

\* handleSearch: onSearch is not awaited, so `finally` clears the form's
\* loading flag in the same handler run that set it
handleSearch(u) ==
    IF Len(u.latitude) = 0 \/ Len(u.longitude) = 0
    THEN [u EXCEPT !.formError = Str(MsgEnterCoordinates)]
    ELSE [searchCompanies([u EXCEPT !.formError = Null],
                          parseFloat(u.latitude), parseFloat(u.longitude),
                          parseFloat(u.radius))
             EXCEPT !.formLoading = FALSE]

\* searchCompanies after its await of fetch, for search k
searchCompaniesResume(u, k, reply) ==
    LET ok == reply.kind = "response" /\ reply.status \in 200..299
        message == IF reply.kind = "rejected" THEN OptGet(reply.error, "message")
                   ELSE Str(HttpErrorPrefix \o DigitsOf(reply.status))
        companiesFound == JsOr(OptGet(reply.body, "companies"), Arr(<<>>))
    IN  IF ok
        THEN [u EXCEPT !.companies = companiesFound.a, !.loading = FALSE,
                       !.searches[k].state = "ok",
                       !.searches[k].result = companiesFound.a]
        ELSE [u EXCEPT !.error = Str(SearchErrorPrefix
                                        \o JsOr(message, Str(MsgUnknownError)).s),
                       !.loading = FALSE,
                       !.searches[k].state = "failed"]

\* onChange of the three inputs
ChangeLatitude(text) ==
    /\ ui' = [ui EXCEPT !.latitude = text]
    /\ UNCHANGED <<call, post, items, response>>

ChangeLongitude(text) ==
    /\ ui' = [ui EXCEPT !.longitude = text]
    /\ UNCHANGED <<call, post, items, response>>

ChangeRadius(text) ==
    /\ ui' = [ui EXCEPT !.radius = text]
    /\ UNCHANGED <<call, post, items, response>>

\* getCurrentLocation, clicked on a browser with or without geolocation
ClickLocate(supported) ==
    /\ ~ui.formLoading
    /\ ui' = IF supported
             THEN [ui EXCEPT !.formError = Null, !.formLoading = TRUE,
                             !.locating = TRUE]
             ELSE [ui EXCEPT !.formError = Str(MsgNoGeolocation)]
    /\ UNCHANGED <<call, post, items, response>>

\* the success callback of getCurrentPosition
LocateSucceeds(coords) ==
    /\ ui.locating
    /\ ui' = [ui EXCEPT !.latitude = NumberToString(coords.latitude),
                        !.longitude = NumberToString(coords.longitude),
                        !.formLoading = FALSE, !.locating = FALSE]
    /\ UNCHANGED <<call, post, items, response>>

\* the error callback of getCurrentPosition
LocateFails(err) ==
    /\ ui.locating
    /\ ui' = [ui EXCEPT !.formError = Str(LocationErrorPrefix \o ToText(OptGet(err, "message"))),
                        !.formLoading = FALSE, !.locating = FALSE]
    /\ UNCHANGED <<call, post, items, response>>

\* a click on the Search Companies button
ClickSearch ==
    /\ ~SearchDisabled(ui)
    /\ Len(ui.searches) < MaxSearches
    /\ ui' = handleSearch(ui)
    /\ UNCHANGED <<call, post, items, response>>

\* the fetch of search k settles
ResponseArrives(k, reply) ==
    /\ k \in 1..Len(ui.searches)
    /\ ui.searches[k].state = "inflight"
    /\ ui' = searchCompaniesResume(ui, k, reply)
    /\ UNCHANGED <<call, post, items, response>>

\* what the page renders
ShowsLoadingState(u) == u.loading

\* the text typed into a coordinate field
CoordinateTexts == {<<>>, <<"5", "2", ".", "5">>}

RadiusTexts == {InitialUi.radius, <<>>}

Positions == {[latitude |-> Num(0), longitude |-> Num(-1225)]}

\* the error of a refused permission
PositionErrors ==
    {Obj([message |-> Str(<<"U", "s", "e", "r", " ", "d", "e", "n", "i", "e", "d", " ",
                            "G", "e", "o", "l", "o", "c", "a", "t", "i", "o", "n">>)])}

SearchReplies ==
    {[kind |-> "response", status |-> 200,
      body |-> Obj([companies |-> Arr(<<[name |-> Str(<<"A">>)]>>)]),
      error |-> Undefined],
     [kind |-> "response", status |-> 200,
      body |-> Obj([companies |-> Arr(<<[name |-> Str(<<"B">>)]>>)]),
      error |-> Undefined],
     [kind |-> "response", status |-> 500,
      body |-> Obj([error |-> Str(MsgFailedToProcess)]), error |-> Undefined],
     [kind |-> "rejected", status |-> 0, body |-> Undefined,
      error |-> Obj([message |-> Str(<<"F", "a", "i", "l", "e", "d", " ", "t", "o", " ",
                                       "f", "e", "t", "c", "h">>)])]}

----------------------------------------------------------------------------
(* Specifications *)

NextUI ==
    \/ \E text \in CoordinateTexts : ChangeLatitude(text)
    \/ \E text \in CoordinateTexts : ChangeLongitude(text)
    \/ \E text \in RadiusTexts : ChangeRadius(text)
    \/ \E supported \in BOOLEAN : ClickLocate(supported)
    \/ \E coords \in Positions : LocateSucceeds(coords)
    \/ \E err \in PositionErrors : LocateFails(err)
    \/ ClickSearch
    \/ \E k \in 1..MaxSearches, reply \in SearchReplies : ResponseArrives(k, reply)

SpecUI == InitCalls /\ [][NextUI]_vars

NextCalls ==
    \/ CallFilter
    \/ CallExtractEmail
    \/ CallExtractWebsite
    \/ CallExtractContent
    \/ CallGetScrapeStatus

SpecCalls == InitCalls /\ [][NextCalls]_vars

Init == InitCalls

Next ==
    \/ \E body \in Bodies : ReceivePost(body)
    \/ \E reply \in ProviderReplies : ProviderSettles(reply)
    \/ \E i \in 1..Len(items), o \in PipelineOutcomes : SiteSettles(i, o)
    \/ \E i \in 1..Len(items) : TimerFires(i)

Spec == Init /\ [][Next]_vars

NextScrape ==
    \/ \E url \in ScrapeUrls : CallScrape(url)
    \/ \E o \in ScrapeOutcomes : SiteSettles(1, o)
    \/ TimerFires(1)

SpecScrape == InitCalls /\ [][NextScrape]_vars

\* every network call of a request completes and every timer fires
SpecLive ==
    /\ Init
    /\ [][Next]_vars
    /\ WF_vars(\E reply \in ProviderReplies : ProviderSettles(reply))
    /\ \A i \in 1..(MaxPlaces + 1) :
          /\ WF_vars(\E o \in PipelineOutcomes : SiteSettles(i, o))
          /\ WF_vars(TimerFires(i))

----------------------------------------------------------------------------
(* Claims about scrapeWebsite, checked under SpecScrape *)

ClaimedFailurePrefix ==
    <<"F", "a", "i", "l", "e", "d", " ", "t", "o", " ", "s", "c", "r", "a", "p", "e", ":", " ">>

Scrapes == {items[i].scrape : i \in 1..Len(items)}

IsFailureString(v) == v.t = "string" /\ StartsWith(v.s, ClaimedFailurePrefix)

\* C1: when every attempt times out the scraper makes exactly 3 fetches with
\* one 1000 ms wait between consecutive attempts (2 waits, none after the last)
\* and returns a failure string; when the first attempt fails with an HTTP 404
\* it makes 1 fetch, waits never, and returns a failure string.
C1_RetryCount ==
    \A s \in Scrapes :
        /\ (s.thrown # <<>> /\ s.data = Undefined
               /\ \A k \in 1..Len(s.thrown) : s.thrown[k] = ErrTimeout)
           => /\ Len(s.fetched) <= 3
              /\ s.pc # "rejected"
              /\ s.pc = "waiting" => s.waits = [k \in 1..Len(s.thrown) |-> 1000]
              /\ s.pc = "fetching" => s.waits = [k \in 1..Len(s.thrown) |-> 1000]
              /\ s.pc = "returned" => /\ Len(s.fetched) = 3
                                      /\ s.waits = <<1000, 1000>>
                                      /\ IsFailureString(s.result)
        /\ (s.thrown # <<>> /\ s.thrown[1] = ErrHttp404)
           => /\ s.pc = "returned"
              /\ Len(s.fetched) = 1
              /\ s.waits = <<>>
              /\ IsFailureString(s.result)

\* three timeouts in a row, after which the scrape has returned
C1_Witness ==
    \E s \in Scrapes :
        /\ s.pc = "returned"
        /\ s.thrown = <<ErrTimeout, ErrTimeout, ErrTimeout>>

ClaimedRetryClass == {ErrTimeout, ErrConnReset, ErrConnRefused}

\* C2: a failed attempt (of the first two) is followed by another attempt if
\* and only if the failure is a timeout or a network-level connection error.
C2_RetryIffTimeoutOrConnectionError ==
    \A s \in Scrapes :
        (s.thrown # <<>> /\ Len(s.thrown) = Len(s.fetched) /\ Len(s.thrown) < 3)
        => (s.pc = "waiting" <=> s.thrown[Len(s.thrown)] \in ClaimedRetryClass)

\* C3: scrapeWebsite never rejects; it returns null only for an empty url and
\* otherwise a string: extracted content, or 'Failed to scrape: ' followed by
\* the message of the error.
C3_ScrapeNeverRaises ==
    \A s \in Scrapes :
        /\ s.pc # "rejected"
        /\ s.pc = "returned" =>
              IF s.url = Str(<<>>) THEN s.result = Null
              ELSE /\ s.result.t = "string"
                   /\ s.data = Undefined =>
                         LET e == s.thrown[Len(s.thrown)]
                         IN  /\ IsFailureString(s.result)
                             /\ OptGet(e, "message").t = "string" =>
                                   s.result.s = ClaimedFailurePrefix \o OptGet(e, "message").s

----------------------------------------------------------------------------
(* Claims about the POST pipeline, checked under Spec *)

\* the places of the provider's list that hold an email, in the list's order
RECURSIVE EmailBearing(_)
EmailBearing(places) ==
    IF places = <<>> THEN <<>>
    ELSE (IF EmailPresent(Head(places)) THEN <<Head(places)>> ELSE <<>>)
         \o EmailBearing(Tail(places))

Records == response.body.f.companies

HighestPriorityEmail(company) ==
    EmailAt(company, MinOf({k \in 1..3 : NonEmptyString(EmailAt(company, k))}))

WebsitePresent(company) == \E k \in 1..4 : NonEmptyString(WebsiteAt(company, k))

\* C5: every record of a 200 response has a non-null email, the value of the
\* highest-priority email location of the place it was built from.
C5_RecordEmailIsHighestPriority ==
    response.status = 200 =>
        LET src == EmailBearing(post.companies.a)
        IN  \A j \in 1..Len(Records) :
                /\ j <= Len(src)
                /\ Records[j].email # Null
                /\ Records[j].email = HighestPriorityEmail(src[j])

\* a response with the records of place A (emails at two locations, the
\* contact one reported) and place D (email under the flattened key only)
C5_Witness ==
    /\ response.status = 200
    /\ post.companies.a = <<PlaceD, PlaceC, PlaceA>>
    /\ Len(Records) = 2
    /\ Records[1].email = Str(E3)
    /\ Records[2].email = Str(E1)

\* C9: a 200 response holds exactly one record per email-bearing place, in the
\* provider's order; scrapedContent is null iff the place has no website, and
\* otherwise the string its scrape returned.
C9_PipelineAssembly ==
    response.status = 200 =>
        LET src == EmailBearing(post.companies.a)
        IN  /\ Len(Records) = Len(src)
            /\ \A j \in 1..Len(Records) :
                  /\ Records[j].name = src[j].properties.f.name
                  /\ Records[j].scrapedContent = Null <=> ~WebsitePresent(src[j])
                  /\ WebsitePresent(src[j]) =>
                        /\ Records[j].scrapedContent.t = "string"
                        /\ items[j].scrape.pc = "returned"
                        /\ Len(items[j].scrape.fetched) >= 1
                        /\ items[j].scrape.url =
                              WebsiteAt(src[j], MinOf({k \in 1..4 :
                                  NonEmptyString(WebsiteAt(src[j], k))}))
                        /\ Records[j].scrapedContent = items[j].scrape.result

\* the end-to-end scenario: places with email and website, with email only,
\* and without email give two records, the paragraph text and null
C9_Witness ==
    /\ response.status = 200
    /\ post.companies.a = <<PlaceA, PlaceB, PlaceC>>
    /\ Len(Records) = 2
    /\ Records[1].scrapedContent = Str(Rep("x", 40))
    /\ Records[2].scrapedContent = Null

\* C10: once the provider has returned a list, no outcome of any item's scrape
\* turns the request into an error response or removes or changes another
\* item's record: the response is a 200 with one record per item, each built
\* from its own place and its own scrape.
C10_ScrapeFailureIsolated ==
    (post.pc = "responded" /\ post.companies.t = "array") =>
        /\ response.status = 200
        /\ Len(Records) = Len(items)
        /\ \A j \in 1..Len(items) :
              /\ Records[j].name = items[j].company.properties.f.name
              /\ Records[j].scrapedContent = items[j].scrape.result

----------------------------------------------------------------------------
(* Claims about the handler's responses, checked under Spec and SpecLive *)

Claimed400Message ==
    <<"L", "a", "t", "i", "t", "u", "d", "e", " ", "a", "n", "d", " ", "l", "o", "n", "g", "i", "t", "u", "d", "e", " ", "a", "r", "e", " ", "r", "e", "q", "u", "i", "r", "e", "d">>

Claimed500Message ==
    <<"F", "a", "i", "l", "e", "d", " ", "t", "o", " ", "p", "r", "o", "c", "e", "s", "s", " ", "r", "e", "q", "u", "e", "s", "t">>


C11_ResponseShape ==
    /\ response.status \in {0, 200, 400, 500}
    /\ post.pc = "responded" <=> response # NoResponse
    /\ response.status = 200 =>
          /\ post.companies.t = "array"
          /\ Len(Records) = Len(EmailBearing(post.companies.a))
          /\ \A j \in 1..Len(Records) :
                Records[j].name = EmailBearing(post.companies.a)[j].properties.f.name
    /\ response.status = 400 => response.body = Obj([error |-> Str(Claimed400Message)])
    /\ response.status = 500 => response.body = Obj([error |-> Str(Claimed500Message)])

\* C11: a POST is answered once, with a 200 and the complete companies array,
\* a 400 'Latitude and longitude are required' or a 500 'Failed to process
\* request' whose body holds nothing else; a response never holds a partial
\* list and is never replaced.
C11_ExactlyOneResponse ==
    /\ []C11_ResponseShape
    /\ [][response # NoResponse => response' = response]_vars

\* an exception during the orchestration (a rejected scrape) answered with the
\* generic 500 while another item's scrape is still running
C11_Witness ==
    /\ response.status = 500
    /\ Len(items) = 2
    /\ items[1].scrape.pc = "rejected"
    /\ items[2].scrape.pc = "fetching"

\* C12: a body without latitude or without longitude is answered 400 with no
\* provider query and no scrape; a body with numeric latitude and longitude
\* (0 included) is not answered 400.
C12_CoordinatesValidated ==
    (post.pc # "idle" /\ post.body # BadJson) =>
        LET latitude == OptGet(post.body, "latitude")
            longitude == OptGet(post.body, "longitude")
        IN  /\ (latitude = Undefined \/ longitude = Undefined) =>
                  /\ response = [status |-> 400,
                                 body |-> Obj([error |-> Str(Claimed400Message)])]
                  /\ post.query = Undefined
                  /\ items = <<>>
            /\ (latitude.t = "number" /\ longitude.t = "number") =>
                  response.status # 400

\* C13: fetchNearbyCompanies always returns a sequence, the empty one on a
\* transport or provider error or a reply without a feature list, and the POST
\* then answers 200 with an empty companies array.
C13_ProviderFailureDegrades ==
    /\ post.reply # "none" => post.companies.t = "array"
    /\ post.reply \in {"error", "nofeatures"} =>
          /\ post.companies = Arr(<<>>)
          /\ response.status = 200
          /\ Records = <<>>

\* C15: the provider is asked for r * 1000 meters, r being the body's radius or
\* 2.5 when the body has none; 0 and negative radii pass unchanged, and no
\* radius makes a request with valid coordinates fail.
C15_RadiusPassedThrough ==
    (post.pc # "idle" /\ post.body # BadJson
        /\ Truthy(OptGet(post.body, "latitude"))
        /\ Truthy(OptGet(post.body, "longitude"))) =>
        LET r == OptGet(post.body, "radius")
        IN  /\ post.query # Undefined
            /\ r = Undefined => post.query.radiusMeters = Num(25 * 1000)
            /\ r.t = "number" => post.query.radiusMeters = Num(r.n * 1000)

\* C16: every scrape of a request has been started before any of them is
\* waited for, and a 200 response is produced only when none is in flight.
C16_FanOutThenJoin ==
    /\ (post.pc \in {"awaitingScrapes", "responded"} /\ post.companies.t = "array") =>
          /\ Len(items) = Len(EmailBearing(post.companies.a))
          /\ \A i \in 1..Len(items) :
                WebsitePresent(items[i].company) =>
                    /\ items[i].scrape.pc # "skipped"
                    /\ Len(items[i].scrape.fetched) >= 1
    /\ response.status = 200 =>
          \A i \in 1..Len(items) : items[i].scrape.pc \in {"returned", "skipped"}

\* the first item is still in its first attempt while the second has returned
C16_Witness ==
    /\ post.pc = "awaitingScrapes"
    /\ Len(items) = 2
    /\ items[1].scrape.pc = "fetching" /\ items[1].scrape.attempt = 1
    /\ items[2].scrape.pc = "returned"

----------------------------------------------------------------------------
(* Claims about the displayed scrape status, checked under SpecCalls *)

\* C14: getScrapeStatus maps null to a failure with code NOT_ATTEMPTED, a
\* string containing 'ERROR:' or beginning with 'Failed to scrape:' to a
\* failure, a string empty after trimming to a failure with code
\* EMPTY_CONTENT and every other string to success.
C14_StatusClassification ==
    call.fn = "getScrapeStatus" =>
        LET content == call.arg
        IN  IF content = Null
            THEN call.ret = [success |-> FALSE, errorCode |-> Str(CodeNOT_ATTEMPTED)]
            ELSE IF \/ Includes(content.s, ErrorMarker)
                    \/ StartsWith(content.s, SubSeq(FailedPrefix, 1, Len(FailedPrefix) - 1))
            THEN call.ret.success = FALSE
            ELSE IF Trim(content.s) = <<>>
            THEN call.ret = [success |-> FALSE, errorCode |-> Str(CodeEMPTY_CONTENT)]
            ELSE call.ret.success = TRUE

----------------------------------------------------------------------------
(* Claims about the requested URL, checked under SpecScrape *)

HttpScheme ==
    <<"h", "t", "t", "p", ":", "/", "/">>

HasScheme(u) == StartsWith(u, HttpScheme) \/ StartsWith(u, HttpsScheme)

\* C18: every attempt of a scrape requests the website URL itself when it has
\* a scheme and 'https://' followed by the URL when it has none, also for a
\* host whose name begins with 'http'.
C18_UrlNormalised ==
    \A s \in Scrapes :
        \A k \in 1..Len(s.fetched) :
            s.fetched[k] = IF HasScheme(s.url.s) THEN s.url.s
                           ELSE HttpsScheme \o s.url.s

----------------------------------------------------------------------------
(* Claims about the search page, checked under SpecUI *)

InFlight == {k \in 1..Len(ui.searches) : ui.searches[k].state = "inflight"}

\* C19: the page shows its loading indicator whenever a search is in flight;
\* once every search has settled the displayed list is the one returned for
\* the most recently submitted search; no search is submitted while another
\* is in flight.
C19_SearchConsistency ==
    /\ InFlight # {} => ShowsLoadingState(ui)
    /\ (Len(ui.searches) > 0 /\ InFlight = {}
            /\ ui.searches[Len(ui.searches)].state = "ok") =>
          ui.companies = ui.searches[Len(ui.searches)].result
    /\ Cardinality(InFlight) <= 1

====
